---- MODULE Spec2Model ----
(***************************************************************************)
(* flash.events.EventDispatcher (core/src/avm2/globals/flash/events/       *)
(* eventdispatcher.rs): the native methods addEventListener,               *)
(* removeEventListener, hasEventListener, willTrigger and dispatchEvent,   *)
(* the private slots "target" and "dispatch_list" they work on, and the    *)
(* collaborators they call (the dispatch list, the broadcast registry, the *)
(* display tree's parent lookup and the dispatch algorithm).               *)
(*                                                                         *)
(* AVM2 values are encoded as strings: "undefined", "null", "true",        *)
(* "false", object identities ("A", "f", "E1", ...).  The useCapture and   *)
(* priority arguments are given as Value::Bool and Value::Integer (an i32),*)
(* on which coerce_to_boolean and coerce_to_i32 return the value itself;   *)
(* they are written as TLA+ booleans and integers.                         *)
(***************************************************************************)
EXTENDS Integers, Sequences, FiniteSets, TLC

VARIABLES
    slot_dispatch_list, \* object -> value of its private slot "dispatch_list"
    slot_target,        \* object -> value of its private slot "target"
    broadcast,          \* the broadcast registry: set of <<object, type>>
    events,             \* event-like object -> its dispatch-time fields
    disp,               \* the dispatch in progress (position of dispatch_event_internal)
    fired               \* listeners invoked by the current / last dispatch, in order

vars == <<slot_dispatch_list, slot_target, broadcast, events, disp, fired>>

----------------------------------------------------------------------------
(* Bounds of the model                                                     *)

\* most Listener Entries held by all objects together: registration and queries
MaxEntries == 2
\* most Listener Entries in the single list of the priority scenario
MaxPriorityEntries == 4
\* most Listener Entries held by all nodes of the tree in the dispatch scenario
MaxTreeEntries == 4
\* most Listener Entries held by the node whose listeners change its lists
MaxReentrantEntries == 3
\* most Listener Entries held by the two nodes of the stop scenarios
MaxHaltEntries == 4

----------------------------------------------------------------------------
(* Values                                                                  *)

Undefined == "undefined"
Null == "null"
ValTrue == "true"
ValFalse == "false"
\* `this: Option<Object>` = None
NoObject == "none"

ErrInvalidEvent == "Error: Dispatched Events must be subclasses of Event."
ErrInvalidListener == "Error: value is not callable"
ErrListenerFailure == "Error: thrown by listener"
ErrOtherListenerFailure == "Error: thrown by another listener"

\* display-tree nodes A -> B -> C (C's parent is B, B's parent is A)
DisplayNodes == {"A", "B", "C"}
\* a plain EventDispatcher, not part of the display tree
PlainDispatchers == {"P"}
Objects == DisplayNodes \cup PlainDispatchers

TypeNames == {"x", "y", "undefined"}
Buckets == TypeNames \X BOOLEAN

\* callable objects that can be registered as listeners
Callables == {"f", "g", "h", "k", "rmself", "rmg", "addg", "stop", "stopnow", "throw",
              "throw2"}
\* values that are not callable: undefined, a primitive, a plain object
NonCallables == {Undefined, "prim", "obj"}

\* Event objects, and an object that is no Event but has fields of the same names
EventObjects == {"E1", "E2"}
NonEvents == {Undefined, "prim", "O"}
EventLike == EventObjects \cup {"O"}

UndefinedSlot == [kind |-> "undefined"]
NullSlot == [kind |-> "null"]
ObjectSlot(o) == [kind |-> "object", obj |-> o]
PrimitiveSlot == [kind |-> "primitive"]

\* DispatchObject::empty_list
empty_list == [kind |-> "dispatch", lists |-> [b \in Buckets |-> <<>>]]

\* args.get(i).cloned().unwrap_or(default), 1-based
Arg(args, i, default) == IF Len(args) >= i THEN args[i] ELSE default

\* Value::coerce_to_string on undefined and on strings
coerce_to_string(v) == IF v = Undefined THEN "undefined" ELSE v

\* Value::as_callable succeeds
IsCallable(v) == v \in Callables

\* Value::as_object is Some
IsObject(v) == v \in Objects \cup EventLike \cup Callables \cup {"obj"}

\* a slot holding the value v
ValueSlot(v) ==
    IF v = Undefined THEN UndefinedSlot
    ELSE IF v = Null THEN NullSlot
    ELSE IF IsObject(v) THEN ObjectSlot(v)
    ELSE PrimitiveSlot

\* Object::as_event is Some
IsEvent(v) == v \in EventObjects

\* events::parent_of
parent_of(o) ==
    CASE o = "B" -> "A"
      [] o = "C" -> "B"
      [] OTHER -> NoObject

----------------------------------------------------------------------------
(* The dispatch list: per event type, a capture list and a non-capture     *)
(* list of entries, each sorted by descending priority, stable             *)

ListHas(list, handler) == \E i \in 1..Len(list) : list[i].handler = handler

ListInsert(list, priority, handler) ==
    IF ListHas(list, handler) THEN list
    ELSE LET k == Cardinality({i \in 1..Len(list) : list[i].priority >= priority})
         IN  SubSeq(list, 1, k)
                 \o <<[handler |-> handler, priority |-> priority]>>
                 \o SubSeq(list, k + 1, Len(list))

ListRemove(list, handler) == SelectSeq(list, LAMBDA e : e.handler # handler)

DispatchList_add_event_listener(dl, event, priority, handler, use_capture) ==
    [dl EXCEPT !.lists[<<event, use_capture>>] = ListInsert(@, priority, handler)]

DispatchList_remove_event_listener(dl, event, handler, use_capture) ==
    [dl EXCEPT !.lists[<<event, use_capture>>] = ListRemove(@, handler)]

DispatchList_has_event_listener(dl, event) ==
    dl.lists[<<event, FALSE>>] # <<>> \/ dl.lists[<<event, TRUE>>] # <<>>

\* Avm2::register_broadcast_listener
register_broadcast_listener(bc, object, event_name) == bc \cup {<<object, event_name>>}

----------------------------------------------------------------------------
(* The native methods.  Each takes the slots and the registry it works on  *)
(* and gives back the slots and registry it leaves and its result, so that *)
(* a listener running inside a dispatch can call them too.                 *)

\* dispatch_list: the slots after the lazy initialisation of this's list
\* dispatch_list attaching a fresh empty list at every call
\* the instance constructor: the private target slot takes the first
\* argument, null when there is none; no dispatch list is attached
instance_init(tgt, this, args) ==
    IF this = NoObject THEN tgt
    ELSE [tgt EXCEPT ![this] = ValueSlot(Arg(args, 1, Null))]

dispatch_list_always_fresh(dls, this) == [dls EXCEPT ![this] = empty_list]

dispatch_list(dls, this) ==
    IF dls[this].kind = "dispatch" THEN dls
    ELSE [dls EXCEPT ![this] = empty_list]

\* add_event_listener replacing an entry that is already registered
add_event_listener_replacing(dls, bc, this, args) ==
    IF this = NoObject THEN [dls |-> dls, bc |-> bc, res |-> Undefined]
    ELSE
        LET d1 == dispatch_list(dls, this)
            event_type == coerce_to_string(Arg(args, 1, Undefined))
            listener == Arg(args, 2, Undefined)
            use_capture == Arg(args, 3, FALSE)
            priority == Arg(args, 4, 0)
        IN  IF ~IsCallable(listener)
            THEN [dls |-> d1, bc |-> bc, res |-> ErrInvalidListener]
            ELSE [dls |-> [d1 EXCEPT ![this] =
                              DispatchList_add_event_listener(
                                  DispatchList_remove_event_listener(
                                      @, event_type, listener, use_capture),
                                  event_type, priority, listener, use_capture)],
                  bc |-> register_broadcast_listener(bc, this, event_type),
                  res |-> Undefined]

\* add_event_listener that never reads its priority argument
add_event_listener_default_priority(dls, bc, this, args) ==
    IF this = NoObject THEN [dls |-> dls, bc |-> bc, res |-> Undefined]
    ELSE
        LET d1 == dispatch_list(dls, this)
            event_type == coerce_to_string(Arg(args, 1, Undefined))
            listener == Arg(args, 2, Undefined)
            use_capture == Arg(args, 3, FALSE)
        IN  IF ~IsCallable(listener)
            THEN [dls |-> d1, bc |-> bc, res |-> ErrInvalidListener]
            ELSE [dls |-> [d1 EXCEPT ![this] =
                              DispatchList_add_event_listener(
                                  @, event_type, 0, listener, use_capture)],
                  bc |-> register_broadcast_listener(bc, this, event_type),
                  res |-> Undefined]

\* add_event_listener recording the object in the registry before it looks at
\* the listener
add_event_listener_registers_first(dls, bc, this, args) ==
    IF this = NoObject THEN [dls |-> dls, bc |-> bc, res |-> Undefined]
    ELSE
        LET d1 == dispatch_list(dls, this)
            event_type == coerce_to_string(Arg(args, 1, Undefined))
            listener == Arg(args, 2, Undefined)
            use_capture == Arg(args, 3, FALSE)
            priority == Arg(args, 4, 0)
            bc1 == register_broadcast_listener(bc, this, event_type)
        IN  IF ~IsCallable(listener)
            THEN [dls |-> d1, bc |-> bc1, res |-> ErrInvalidListener]
            ELSE [dls |-> [d1 EXCEPT ![this] =
                              DispatchList_add_event_listener(
                                  @, event_type, priority, listener, use_capture)],
                  bc |-> bc1,
                  res |-> Undefined]

add_event_listener(dls, bc, this, args) ==
    IF this = NoObject THEN [dls |-> dls, bc |-> bc, res |-> Undefined]
    ELSE
        LET d1 == dispatch_list(dls, this)
            event_type == coerce_to_string(Arg(args, 1, Undefined))
            listener == Arg(args, 2, Undefined)
            use_capture == Arg(args, 3, FALSE)
            priority == Arg(args, 4, 0)
        IN  IF ~IsCallable(listener)
            THEN [dls |-> d1, bc |-> bc, res |-> ErrInvalidListener]
            ELSE [dls |-> [d1 EXCEPT ![this] =
                              DispatchList_add_event_listener(
                                  @, event_type, priority, listener, use_capture)],
                  bc |-> register_broadcast_listener(bc, this, event_type),
                  res |-> Undefined]

\* remove_event_listener that never reads its useCapture argument
remove_event_listener_ignoring_capture(dls, bc, this, args) ==
    IF this = NoObject THEN [dls |-> dls, bc |-> bc, res |-> Undefined]
    ELSE
        LET d1 == dispatch_list(dls, this)
            event_type == coerce_to_string(Arg(args, 1, Undefined))
            listener == Arg(args, 2, Undefined)
        IN  IF ~IsCallable(listener)
            THEN [dls |-> d1, bc |-> bc, res |-> ErrInvalidListener]
            ELSE [dls |-> [d1 EXCEPT ![this] =
                              DispatchList_remove_event_listener(
                                  @, event_type, listener, FALSE)],
                  bc |-> bc,
                  res |-> Undefined]

\* remove_event_listener removing the listener from both lists of the type
remove_event_listener_both_buckets(dls, bc, this, args) ==
    IF this = NoObject THEN [dls |-> dls, bc |-> bc, res |-> Undefined]
    ELSE
        LET d1 == dispatch_list(dls, this)
            event_type == coerce_to_string(Arg(args, 1, Undefined))
            listener == Arg(args, 2, Undefined)
        IN  IF ~IsCallable(listener)
            THEN [dls |-> d1, bc |-> bc, res |-> ErrInvalidListener]
            ELSE [dls |-> [d1 EXCEPT ![this] =
                              DispatchList_remove_event_listener(
                                  DispatchList_remove_event_listener(
                                      @, event_type, listener, FALSE),
                                  event_type, listener, TRUE)],
                  bc |-> bc,
                  res |-> Undefined]

\* remove_event_listener taking the object out of the broadcast registry
\* when its last listener for the type goes
remove_event_listener_unregistering(dls, bc, this, args) ==
    IF this = NoObject THEN [dls |-> dls, bc |-> bc, res |-> Undefined]
    ELSE
        LET d1 == dispatch_list(dls, this)
            event_type == coerce_to_string(Arg(args, 1, Undefined))
            listener == Arg(args, 2, Undefined)
            use_capture == Arg(args, 3, FALSE)
            d2 == [d1 EXCEPT ![this] =
                       DispatchList_remove_event_listener(@, event_type, listener, use_capture)]
        IN  IF ~IsCallable(listener)
            THEN [dls |-> d1, bc |-> bc, res |-> ErrInvalidListener]
            ELSE [dls |-> d2,
                  bc |-> IF DispatchList_has_event_listener(d2[this], event_type)
                         THEN bc ELSE bc \ {<<this, event_type>>},
                  res |-> Undefined]

remove_event_listener(dls, bc, this, args) ==
    IF this = NoObject THEN [dls |-> dls, bc |-> bc, res |-> Undefined]
    ELSE
        LET d1 == dispatch_list(dls, this)
            event_type == coerce_to_string(Arg(args, 1, Undefined))
            listener == Arg(args, 2, Undefined)
            use_capture == Arg(args, 3, FALSE)
        IN  IF ~IsCallable(listener)
            THEN [dls |-> d1, bc |-> bc, res |-> ErrInvalidListener]
            ELSE [dls |-> [d1 EXCEPT ![this] =
                              DispatchList_remove_event_listener(
                                  @, event_type, listener, use_capture)],
                  bc |-> bc,
                  res |-> Undefined]

\* has_event_listener reading the type from the second argument
has_event_listener_wrong_argument(dls, this, args) ==
    IF this = NoObject THEN [dls |-> dls, res |-> Undefined]
    ELSE
        LET d1 == dispatch_list(dls, this)
            event_type == coerce_to_string(Arg(args, 2, Undefined))
        IN  [dls |-> d1,
             res |-> IF DispatchList_has_event_listener(d1[this], event_type)
                     THEN ValTrue ELSE ValFalse]

\* has_event_listener initialising the dispatch list instead of fetching it
has_event_listener_fresh_list(dls, this, args) ==
    IF this = NoObject THEN [dls |-> dls, res |-> Undefined]
    ELSE
        LET d1 == [dls EXCEPT ![this] = empty_list]
            event_type == coerce_to_string(Arg(args, 1, Undefined))
        IN  [dls |-> d1,
             res |-> IF DispatchList_has_event_listener(d1[this], event_type)
                     THEN ValTrue ELSE ValFalse]

has_event_listener(dls, this, args) ==
    IF this = NoObject THEN [dls |-> dls, res |-> Undefined]
    ELSE
        LET d1 == dispatch_list(dls, this)
            event_type == coerce_to_string(Arg(args, 1, Undefined))
        IN  [dls |-> d1,
             res |-> IF DispatchList_has_event_listener(d1[this], event_type)
                     THEN ValTrue ELSE ValFalse]

\* will_trigger looking at the parent's own list instead of asking the parent
\* will_trigger going on at the receiver's own parent whatever the target slot holds
RECURSIVE will_trigger_ignoring_target(_, _, _, _)
will_trigger_ignoring_target(dls, tgt, this, args) ==
    IF this = NoObject THEN [dls |-> dls, res |-> ValFalse]
    ELSE
        LET d1 == dispatch_list(dls, this)
            event_type == coerce_to_string(Arg(args, 1, Undefined))
            parent == parent_of(this)
        IN  IF DispatchList_has_event_listener(d1[this], event_type)
            THEN [dls |-> d1, res |-> ValTrue]
            ELSE IF parent # NoObject
                 THEN will_trigger_ignoring_target(d1, tgt, parent, args)
                 ELSE [dls |-> d1, res |-> ValFalse]

will_trigger_one_level(dls, tgt, this, args) ==
    IF this = NoObject THEN [dls |-> dls, res |-> ValFalse]
    ELSE
        LET d1 == dispatch_list(dls, this)
            event_type == coerce_to_string(Arg(args, 1, Undefined))
            target == IF tgt[this].kind = "object" THEN tgt[this].obj ELSE this
            parent == parent_of(target)
        IN  IF DispatchList_has_event_listener(d1[this], event_type)
            THEN [dls |-> d1, res |-> ValTrue]
            ELSE IF parent # NoObject
                 THEN has_event_listener(d1, parent, args)
                 ELSE [dls |-> d1, res |-> ValFalse]

RECURSIVE will_trigger(_, _, _, _)
will_trigger(dls, tgt, this, args) ==
    IF this = NoObject THEN [dls |-> dls, res |-> ValFalse]
    ELSE
        LET d1 == dispatch_list(dls, this)
            event_type == coerce_to_string(Arg(args, 1, Undefined))
            target == IF tgt[this].kind = "object" THEN tgt[this].obj ELSE this
            parent == parent_of(target)
        IN  IF DispatchList_has_event_listener(d1[this], event_type)
            THEN [dls |-> d1, res |-> ValTrue]
            ELSE IF parent # NoObject
                 THEN will_trigger(d1, tgt, parent, args)
                 ELSE [dls |-> d1, res |-> ValFalse]

----------------------------------------------------------------------------
(* The dispatch algorithm (events::dispatch_event) and the listeners       *)

\* both Event objects have type "x"; E1 bubbles, E2 does not
EventType(e) == "x"
EventBubbles(e) == e = "E1"

\* the lists of an object, empty when its slot holds no dispatch list yet
ListsOf(dls, o) == IF dls[o].kind = "dispatch" THEN dls[o].lists ELSE empty_list.lists

\* [D, P1, P2, ..., Root]
RECURSIVE propagation_path(_)
propagation_path(o) ==
    IF parent_of(o) = NoObject THEN <<o>>
    ELSE <<o>> \o propagation_path(parent_of(o))

\* The walk over a path of n nodes has 2n-1 node visits: 1..n-1 capturing (root
\* down to D's parent), n at the target, n+1..2n-1 bubbling (D's parent up to root)
\* StageNode with the bubbling visits starting at the root
StageNode_bubbling_from_root(path, k) ==
    LET n == Len(path)
    IN  IF k < n THEN path[n - k + 1] ELSE IF k = n THEN path[1] ELSE path[2 * n - k + 1]

StageNode(path, k) ==
    LET n == Len(path)
    IN  IF k < n THEN path[n - k + 1] ELSE IF k = n THEN path[1] ELSE path[k - n + 1]

StagePhase(path, k) ==
    LET n == Len(path)
    IN  IF k < n THEN "capturing" ELSE IF k = n THEN "at_target" ELSE "bubbling"

\* StageAllowed with the target's visit dropped as well once propagation is stopped
StageAllowed_target_skipped_when_stopped(path, k, ev, bubbles) ==
    LET n == Len(path)
    IN  IF k <= n THEN ~ev.propagationStopped
        ELSE bubbles /\ ~ev.propagationStopped

\* StageAllowed with the capturing visits made for bubbling events only
StageAllowed_capture_needs_bubbles(path, k, ev, bubbles) ==
    LET n == Len(path)
    IN  IF k < n THEN bubbles /\ ~ev.propagationStopped
        ELSE IF k = n THEN TRUE
        ELSE bubbles /\ ~ev.propagationStopped

\* may node visit k take place, given the event's flags
StageAllowed(path, k, ev, bubbles) ==
    LET n == Len(path)
    IN  IF k < n THEN ~ev.propagationStopped
        ELSE IF k = n THEN TRUE
        ELSE bubbles /\ ~ev.propagationStopped

\* the node visit that follows visit k; 0 when the walk is over
NextStage(path, k, ev, bubbles) ==
    LET later == {j \in (k + 1)..(2 * Len(path) - 1) : StageAllowed(path, j, ev, bubbles)}
    IN  IF later = {} THEN 0 ELSE CHOOSE j \in later : \A i \in later : j <= i

\* the handlers of a list, in the list's order: the copy a firing pass iterates
Snapshot(dls, node, type, use_capture) ==
    LET list == ListsOf(dls, node)[<<type, use_capture>>]
    IN  [i \in 1..Len(list) |-> list[i].handler]

\* What each listener of the model does when it is called with the event
\* (fields ev, type etype).  ok = FALSE: the call fails.
listener_call(handler, dls, bc, ev, etype) ==
    LET cap == ev.phase = "capturing"
        same == [dls |-> dls, bc |-> bc, ev |-> ev, ok |-> TRUE, err |-> Undefined]
    IN  CASE handler = "rmself" ->
                LET r == remove_event_listener(dls, bc, ev.currentTarget, <<etype, "rmself", cap>>)
                IN  [same EXCEPT !.dls = r.dls, !.bc = r.bc]
          [] handler = "rmg" ->
                LET r == remove_event_listener(dls, bc, ev.currentTarget, <<etype, "g", cap>>)
                IN  [same EXCEPT !.dls = r.dls, !.bc = r.bc]
          [] handler = "addg" ->
                LET r == add_event_listener(dls, bc, ev.currentTarget, <<etype, "g", cap, 1>>)
                IN  [same EXCEPT !.dls = r.dls, !.bc = r.bc]
          [] handler = "stop" -> [same EXCEPT !.ev.propagationStopped = TRUE]
          [] handler = "stopnow" -> [same EXCEPT !.ev.immediatePropagationStopped = TRUE]
          [] handler = "throw" -> [same EXCEPT !.ok = FALSE, !.err = ErrListenerFailure]
          [] handler = "throw2" -> [same EXCEPT !.ok = FALSE, !.err = ErrOtherListenerFailure]
          [] OTHER -> same

\* dispatch_event with the receiver looked at before the argument
dispatch_event_receiver_first(this, args) ==
    LET event == Arg(args, 1, Undefined)
    IN  IF this = NoObject THEN [go |-> FALSE, res |-> ValFalse]
        ELSE IF ~IsObject(event) \/ ~IsEvent(event)
             THEN [go |-> FALSE, res |-> ErrInvalidEvent]
             ELSE [go |-> TRUE, res |-> Undefined]

\* dispatch_event, up to the call of the dispatch algorithm
dispatch_event(this, args) ==
    LET event == Arg(args, 1, Undefined)
    IN  IF ~IsObject(event) \/ ~IsEvent(event) THEN [go |-> FALSE, res |-> ErrInvalidEvent]
        ELSE IF this # NoObject THEN [go |-> TRUE, res |-> Undefined]
        ELSE [go |-> FALSE, res |-> ValFalse]

\* dispatch_event_result turning a failure of the dispatch algorithm into false
dispatch_event_result_swallowing_error(internal) ==
    IF internal.ok /\ internal.val THEN ValTrue ELSE ValFalse

\* dispatch_event, from the dispatch algorithm's return on: `?` hands its
\* error to the caller as it is, and its boolean is returned as a Value
dispatch_event_result(internal) ==
    IF ~internal.ok THEN internal.err
    ELSE IF internal.val THEN ValTrue ELSE ValFalse

----------------------------------------------------------------------------
(* State                                                                   *)

NoEventFields ==
    [target |-> Null, currentTarget |-> Null, phase |-> "none",
     propagationStopped |-> FALSE, immediatePropagationStopped |-> FALSE]

\* the object that is no Event: its fields hold what its owner put there
PlainObjectFields ==
    [target |-> "A", currentTarget |-> "B", phase |-> "at_target",
     propagationStopped |-> TRUE, immediatePropagationStopped |-> FALSE]

\* pc: "idle" (no dispatchEvent call), "walk" (inside the dispatch algorithm),
\* "done" (dispatchEvent is returning res to its caller)
\* stage: the node visit the walk is at; snapshot, index: the copy of the
\* visited node's list and how many of its listeners have been invoked;
\* halted: the visit was ended by stopImmediatePropagation
Idle ==
    [pc |-> "idle", this |-> NoObject, event |-> Undefined, path |-> <<>>,
     stage |-> 0, snapshot |-> <<>>, index |-> 0, halted |-> FALSE, res |-> Undefined]

\* PassOver with stopImmediatePropagation not ending the visit
PassOver_ignoring_halt == disp.index = Len(disp.snapshot)

\* the walk is between two node visits
PassOver == disp.halted \/ disp.index = Len(disp.snapshot)

\* construction attaching an empty dispatch list at once
Init_eager ==
    /\ slot_dispatch_list = [o \in Objects |-> empty_list]
    /\ slot_target = [o \in Objects |-> IF o \in DisplayNodes THEN NullSlot ELSE UndefinedSlot]
    /\ broadcast = {}
    /\ events = [e \in EventLike |-> IF e = "O" THEN PlainObjectFields ELSE NoEventFields]
    /\ disp = Idle
    /\ fired = <<>>

Init ==
    /\ slot_dispatch_list = [o \in Objects |-> UndefinedSlot]
    /\ slot_target = [o \in Objects |-> IF o \in DisplayNodes THEN NullSlot ELSE UndefinedSlot]
    /\ broadcast = {}
    /\ events = [e \in EventLike |-> IF e = "O" THEN PlainObjectFields ELSE NoEventFields]
    /\ disp = Idle
    /\ fired = <<>>

\* the number of Listener Entries held by all objects together
TotalEntries(dls) ==
    Cardinality(UNION {{<<o, b, i>> : i \in 1..Len(ListsOf(dls, o)[b])} :
                          <<o, b>> \in Objects \X Buckets})

----------------------------------------------------------------------------
(* Calls made by script code outside any dispatch                          *)

AddEventListener(this, args, cap) ==
    LET r == add_event_listener(slot_dispatch_list, broadcast, this, args)
    IN  /\ disp.pc = "idle"
        /\ TotalEntries(r.dls) <= cap
        /\ slot_dispatch_list' = r.dls
        /\ broadcast' = r.bc
        /\ UNCHANGED <<slot_target, events, disp, fired>>

RemoveEventListener(this, args) ==
    LET r == remove_event_listener(slot_dispatch_list, broadcast, this, args)
    IN  /\ disp.pc = "idle"
        /\ slot_dispatch_list' = r.dls
        /\ broadcast' = r.bc
        /\ UNCHANGED <<slot_target, events, disp, fired>>

HasEventListener(this, args) ==
    LET r == has_event_listener(slot_dispatch_list, this, args)
    IN  /\ disp.pc = "idle"
        /\ slot_dispatch_list' = r.dls
        /\ UNCHANGED <<slot_target, broadcast, events, disp, fired>>

WillTrigger(this, args) ==
    LET r == will_trigger(slot_dispatch_list, slot_target, this, args)
    IN  /\ disp.pc = "idle"
        /\ slot_dispatch_list' = r.dls
        /\ UNCHANGED <<slot_target, broadcast, events, disp, fired>>

\* new EventDispatcher(target): the constructor of an object runs once
InstanceInit(this, args) ==
    /\ disp.pc = "idle"
    /\ this # NoObject => slot_target[this] = UndefinedSlot
    /\ slot_target' = instance_init(slot_target, this, args)
    /\ UNCHANGED <<slot_dispatch_list, broadcast, events, disp, fired>>

\* dispatchEvent is called: it fails, returns false, or enters the dispatch
\* algorithm, which computes the path and resets the event's fields
DispatchEvent(this, args) ==
    LET r == dispatch_event(this, args)
        e == Arg(args, 1, Undefined)
    IN  /\ disp.pc = "idle"
        /\ IF r.go
           THEN /\ disp' = [Idle EXCEPT !.pc = "walk", !.this = this, !.event = e,
                                        !.path = propagation_path(this)]
                /\ events' = [events EXCEPT ![e] = [NoEventFields EXCEPT !.target = this]]
           ELSE /\ disp' = [Idle EXCEPT !.pc = "done", !.this = this, !.event = e,
                                        !.res = r.res]
                /\ UNCHANGED events
        /\ fired' = <<>>
        /\ UNCHANGED <<slot_dispatch_list, slot_target, broadcast>>

\* the walk moves to the next node the flags allow and copies its list
EnterNode ==
    LET e == disp.event
        k == NextStage(disp.path, disp.stage, events[e], EventBubbles(e))
        node == StageNode(disp.path, k)
        phase == StagePhase(disp.path, k)
    IN  /\ disp.pc = "walk"
        /\ PassOver
        /\ k # 0
        /\ events' = [events EXCEPT ![e].currentTarget = node, ![e].phase = phase]
        /\ disp' = [disp EXCEPT !.stage = k, !.index = 0, !.halted = FALSE,
                                !.snapshot = Snapshot(slot_dispatch_list, node, EventType(e),
                                                      phase = "capturing")]
        /\ UNCHANGED <<slot_dispatch_list, slot_target, broadcast, fired>>

\* the next listener of the copy is invoked
FireListener ==
    LET e == disp.event
        handler == disp.snapshot[disp.index + 1]
        r == listener_call(handler, slot_dispatch_list, broadcast, events[e], EventType(e))
        \* the listener set immediatePropagationStopped during this call
        stopped_now == listener_call(handler, slot_dispatch_list, broadcast,
                                     [events[e] EXCEPT !.immediatePropagationStopped = FALSE],
                                     EventType(e)).ev.immediatePropagationStopped
    IN  /\ disp.pc = "walk"
        /\ ~PassOver
        /\ fired' = Append(fired, [node |-> events[e].currentTarget, handler |-> handler,
                                   phase |-> events[e].phase])
        /\ slot_dispatch_list' = r.dls
        /\ broadcast' = r.bc
        /\ events' = [events EXCEPT ![e] = r.ev]
        /\ disp' = IF ~r.ok
                   THEN [Idle EXCEPT !.pc = "done", !.this = disp.this, !.event = e,
                                     !.res = dispatch_event_result(
                                                 [ok |-> FALSE, val |-> FALSE,
                                                  err |-> r.err])]
                   ELSE [disp EXCEPT !.index = @ + 1, !.halted = stopped_now]
        /\ UNCHANGED slot_target

\* the walk is over: the event's currentTarget and phase are reset
FinishWalk ==
    LET e == disp.event
    IN  /\ disp.pc = "walk"
        /\ PassOver
        /\ NextStage(disp.path, disp.stage, events[e], EventBubbles(e)) = 0
        /\ events' = [events EXCEPT ![e].currentTarget = Null, ![e].phase = "none"]
        /\ disp' = [Idle EXCEPT !.pc = "done", !.this = disp.this, !.event = e,
                                !.res = dispatch_event_result(
                                            [ok |-> TRUE, val |-> TRUE, err |-> Undefined])]
        /\ UNCHANGED <<slot_dispatch_list, slot_target, broadcast, fired>>

\* dispatchEvent returns to the script, which drops the Event it had made for
\* the call; the next dispatch is given a newly constructed Event
DispatchReturn ==
    /\ disp.pc = "done"
    /\ disp' = Idle
    /\ fired' = <<>>
    /\ events' = [events EXCEPT ![disp.event] =
                      IF IsEvent(disp.event) THEN NoEventFields ELSE @]
    /\ UNCHANGED <<slot_dispatch_list, slot_target, broadcast>>

----------------------------------------------------------------------------
(* Spec: registration and queries on two nodes of the display tree         *)

RegThis == {"A", "B", NoObject}
RegTypes == {"x", "y"}
RegListeners == {"f", "g"}
\* (type, listener): useCapture and priority take their defaults, false and 0
RegAddArgs ==
    {<<t, l>> : t \in RegTypes, l \in RegListeners \cup {"prim"}}
        \cup {<<t>> : t \in RegTypes}
        \cup {<<t, l, TRUE>> : t \in RegTypes, l \in RegListeners}
        \cup {<<t, l, c, 1>> : t \in RegTypes, l \in RegListeners, c \in BOOLEAN}
RegRemoveArgs ==
    {<<t, l>> : t \in RegTypes, l \in RegListeners \cup {"prim"}}
        \cup {<<t>> : t \in RegTypes}
        \cup {<<t, l, TRUE>> : t \in RegTypes, l \in RegListeners}
RegQueryArgs == {<<t>> : t \in RegTypes}

Next ==
    \/ \E this \in RegThis, args \in RegAddArgs : AddEventListener(this, args, MaxEntries)
    \/ \E this \in RegThis, args \in RegRemoveArgs : RemoveEventListener(this, args)
    \/ \E this \in RegThis, args \in RegQueryArgs : HasEventListener(this, args)
    \/ \E this \in RegThis, args \in RegQueryArgs : WillTrigger(this, args)

Spec == Init /\ [][Next]_vars

----------------------------------------------------------------------------
(* SpecChain: registration and queries on the whole chain A -> B -> C      *)

ChainThis == DisplayNodes \cup {NoObject}
ChainAddArgs == {<<t, "f">> : t \in RegTypes} \cup {<<t, "f", TRUE>> : t \in RegTypes}

NextChain ==
    \/ \E this \in ChainThis, args \in ChainAddArgs : AddEventListener(this, args, MaxEntries)
    \/ \E this \in ChainThis, args \in ChainAddArgs : RemoveEventListener(this, args)
    \/ \E this \in ChainThis, args \in RegQueryArgs : HasEventListener(this, args)
    \/ \E this \in ChainThis, args \in RegQueryArgs : WillTrigger(this, args)

SpecChain == Init /\ [][NextChain]_vars

----------------------------------------------------------------------------
(* SpecTree: dispatch along the tree A -> B -> C                           *)

TreeThis == DisplayNodes \cup {NoObject}
TreeListeners == {"f", "stop"}
TreeAddArgs ==
    {<<"x", l>> : l \in TreeListeners} \cup {<<"x", l, TRUE>> : l \in TreeListeners}
TreeEventArgs == {<<e>> : e \in EventObjects \cup NonEvents} \cup {<<>>}

NextTree ==
    \/ \E this \in DisplayNodes, args \in TreeAddArgs :
           AddEventListener(this, args, MaxTreeEntries)
    \/ \E this \in DisplayNodes, args \in TreeAddArgs : RemoveEventListener(this, args)
    \/ \E this \in TreeThis : HasEventListener(this, <<"x">>)
    \/ \E this \in TreeThis : WillTrigger(this, <<"x">>)
    \/ \E this \in TreeThis, args \in TreeEventArgs : DispatchEvent(this, args)
    \/ EnterNode
    \/ FireListener
    \/ FinishWalk
    \/ DispatchReturn

SpecTree == Init /\ [][NextTree]_vars

----------------------------------------------------------------------------
(* SpecPriority: one node's lists with listeners of several priorities,    *)
(* fired by dispatches on the node and on its child                        *)

PriorityListeners == {"f", "g", "h", "k"}
Priorities == {0, 1, 5}
\* four listeners for the non-capture list, two of them for the capture list
PriorityAddArgs ==
    {<<"x", l, FALSE, p>> : l \in PriorityListeners, p \in Priorities}
        \cup {<<"x", l, TRUE, p>> : l \in {"f", "g"}, p \in Priorities}
PriorityRemoveArgs ==
    {<<"x", l, FALSE>> : l \in PriorityListeners} \cup {<<"x", l, TRUE>> : l \in {"f", "g"}}

NextPriority ==
    \/ \E args \in PriorityAddArgs : AddEventListener("A", args, MaxPriorityEntries)
    \/ \E args \in PriorityRemoveArgs : RemoveEventListener("A", args)
    \/ \E this \in {"A", "B"} : DispatchEvent(this, <<"E1">>)
    \/ EnterNode
    \/ FireListener
    \/ FinishWalk
    \/ DispatchReturn

SpecPriority == Init /\ [][NextPriority]_vars

----------------------------------------------------------------------------
(* SpecReentrant: listeners that register and remove listeners on the node *)
(* being fired                                                             *)

ReentrantListeners == {"g", "rmself", "rmg", "addg"}
ReentrantAddArgs ==
    {<<"x", l>> : l \in ReentrantListeners} \cup {<<"x", l, TRUE>> : l \in ReentrantListeners}

NextReentrant ==
    \/ \E args \in ReentrantAddArgs : AddEventListener("A", args, MaxReentrantEntries)
    \/ \E args \in ReentrantAddArgs : RemoveEventListener("A", args)
    \/ \E this \in {"A", "B"} : DispatchEvent(this, <<"E1">>)
    \/ EnterNode
    \/ FireListener
    \/ FinishWalk
    \/ DispatchReturn

SpecReentrant == Init /\ [][NextReentrant]_vars

----------------------------------------------------------------------------
(* SpecHalt: listeners that stop the propagation, at once or after the     *)
(* node, on the path B -> A                                                *)

HaltListeners == {"f", "stop", "stopnow"}
\* B's capture list is on no path of this specification
HaltAdds ==
    {<<"A", <<"x", l, c>>>> : l \in HaltListeners, c \in BOOLEAN}
        \cup {<<"B", <<"x", l, FALSE>>>> : l \in HaltListeners}

NextHalt ==
    \/ \E a \in HaltAdds : AddEventListener(a[1], a[2], MaxHaltEntries)
    \/ \E a \in HaltAdds : RemoveEventListener(a[1], a[2])
    \/ \E this \in {"A", "B"}, e \in EventObjects : DispatchEvent(this, <<e>>)
    \/ EnterNode
    \/ FireListener
    \/ FinishWalk
    \/ DispatchReturn

SpecHalt == Init /\ [][NextHalt]_vars

----------------------------------------------------------------------------
(* SpecFail: listeners whose invocation fails, on the path B -> A          *)

FailListeners == {"f", "throw", "throw2"}
FailAdds ==
    {<<"A", <<"x", l, c>>>> : l \in FailListeners, c \in BOOLEAN}
        \cup {<<"B", <<"x", l, FALSE>>>> : l \in FailListeners}

NextFail ==
    \/ \E a \in FailAdds : AddEventListener(a[1], a[2], MaxHaltEntries)
    \/ \E a \in FailAdds : RemoveEventListener(a[1], a[2])
    \/ \E this \in {"A", "B"}, e \in EventObjects : DispatchEvent(this, <<e>>)
    \/ EnterNode
    \/ FireListener
    \/ FinishWalk
    \/ DispatchReturn

SpecFail == Init /\ [][NextFail]_vars

----------------------------------------------------------------------------
(* SpecProxy: a plain dispatcher constructed with a target, beside the     *)
(* tree A -> B -> C                                                        *)

ProxyTargetArgs == {<<>>, <<"prim">>} \cup {<<o>> : o \in DisplayNodes}
ProxyAddArgs == {<<t, "f">> : t \in RegTypes}

NextProxy ==
    \/ \E this \in {"P", NoObject}, args \in ProxyTargetArgs : InstanceInit(this, args)
    \/ \E this \in Objects, args \in ProxyAddArgs : AddEventListener(this, args, MaxEntries)
    \/ \E this \in Objects, args \in ProxyAddArgs : RemoveEventListener(this, args)
    \/ \E this \in Objects, args \in RegQueryArgs : HasEventListener(this, args)
    \/ \E this \in Objects, args \in RegQueryArgs : WillTrigger(this, args)

SpecProxy == Init /\ [][NextProxy]_vars

----------------------------------------------------------------------------
(* Properties                                                              *)

\* the lists of every object, whether or not its slot holds a list yet
AllLists(dls) == [o \in Objects |-> ListsOf(dls, o)]

\* C1: a dispatchEvent call whose argument is not an Event goes straight to
\* its return with the InvalidEvent error, for every receiver and for a
\* missing one: no listener is invoked, and neither the call nor its return
\* changes a dispatch_list slot, the broadcast registry or a field of the
\* value that was passed.
C1_InvalidEventRejected ==
    [][/\ (disp.pc = "idle" /\ disp'.pc # "idle" /\ ~IsEvent(disp'.event))
            => /\ disp'.pc = "done"
               /\ disp'.res = ErrInvalidEvent
               /\ fired' = <<>>
               /\ UNCHANGED <<slot_dispatch_list, slot_target, broadcast, events>>
       /\ (disp.pc = "done" /\ ~IsEvent(disp.event))
            => /\ fired' = <<>>
               /\ UNCHANGED <<slot_dispatch_list, slot_target, broadcast, events>>]_vars

\* dispatchEvent(O) without a receiver has failed, O being an object that is
\* no Event, while C holds a listener for the type and A one too
C1_Witness ==
    /\ disp.pc = "done"
    /\ disp.this = NoObject
    /\ disp.event = "O"
    /\ disp.res = ErrInvalidEvent
    /\ events["O"] = PlainObjectFields
    /\ Snapshot(slot_dispatch_list, "C", "x", FALSE) # <<>>
    /\ Snapshot(slot_dispatch_list, "A", "x", TRUE) # <<>>
    /\ broadcast # {}

\* the receivers and the calls of Spec
RegObjects == RegThis \ {NoObject}
ValidAddArgs == {args \in RegAddArgs : Len(args) >= 2 /\ IsCallable(args[2])}
ValidRemoveArgs == {args \in RegRemoveArgs : Len(args) >= 2 /\ IsCallable(args[2])}

\* the number of entries an object holds for a type, both lists together
EntriesFor(dls, o, t) ==
    Len(ListsOf(dls, o)[<<t, TRUE>>]) + Len(ListsOf(dls, o)[<<t, FALSE>>])

\* (t, l, c) is registered on o and is o's only registration for t
IsOnlyRegistration(dls, o, t, l, c) ==
    EntriesFor(dls, o, t) = 1 /\ ListHas(ListsOf(dls, o)[<<t, c>>], l)

\* C2: in every reachable state, for every object and every valid
\* (type, listener, useCapture[, priority]): hasEventListener(type) called
\* right after addEventListener returns true; and when the triple is the
\* object's only registration for the type, hasEventListener(type) called
\* right after removeEventListener with the triple returns false.
C2_AddThenHasRemoveThenHasNot ==
    \A this \in RegObjects :
        /\ \A args \in ValidAddArgs :
               LET r == add_event_listener(slot_dispatch_list, broadcast, this, args)
               IN  has_event_listener(r.dls, this, <<args[1]>>).res = ValTrue
        /\ \A args \in ValidRemoveArgs :
               IsOnlyRegistration(slot_dispatch_list, this, args[1], args[2],
                                  Arg(args, 3, FALSE))
               => LET r == remove_event_listener(slot_dispatch_list, broadcast, this, args)
                  IN  has_event_listener(r.dls, this, <<args[1]>>).res = ValFalse

\* A holds f in the capture list of "x" as its only registration for "x", and
\* a listener for "y": hasEventListener("x") is true, and false once
\* removeEventListener("x", f, true) has run
C2_Witness ==
    /\ IsOnlyRegistration(slot_dispatch_list, "A", "x", "f", TRUE)
    /\ EntriesFor(slot_dispatch_list, "A", "y") = 1
    /\ has_event_listener(slot_dispatch_list, "A", <<"x">>).res = ValTrue
    /\ has_event_listener(
           remove_event_listener(slot_dispatch_list, broadcast, "A", <<"x", "f", TRUE>>).dls,
           "A", <<"x">>).res = ValFalse

NoDuplicates(list) ==
    \A i, j \in 1..Len(list) : list[i].handler = list[j].handler => i = j

\* C3: no list ever holds two entries with the same listener, and
\* addEventListener with a (type, listener, useCapture) that is already
\* registered on the object, whatever its priority argument, leaves every
\* list as it was: same entries, same priorities, same positions.
C3_DuplicateRegistrationIdempotent ==
    /\ \A o \in Objects, b \in Buckets : NoDuplicates(ListsOf(slot_dispatch_list, o)[b])
    /\ \A this \in RegObjects, args \in ValidAddArgs :
           ListHas(ListsOf(slot_dispatch_list, this)[<<args[1], Arg(args, 3, FALSE)>>], args[2])
           => AllLists(add_event_listener(slot_dispatch_list, broadcast, this, args).dls)
                  = AllLists(slot_dispatch_list)

\* A's non-capture list of "x" is [f:1, g:1]; registering f again with the
\* default priority 0 leaves it so
C3_Witness ==
    /\ ListsOf(slot_dispatch_list, "A")[<<"x", FALSE>>]
           = <<[handler |-> "f", priority |-> 1], [handler |-> "g", priority |-> 1]>>
    /\ ListsOf(add_event_listener(slot_dispatch_list, broadcast, "A", <<"x", "f">>).dls,
               "A")[<<"x", FALSE>>]
           = <<[handler |-> "f", priority |-> 1], [handler |-> "g", priority |-> 1]>>

\* C8: in every reachable state hasEventListener(type) on an object returns
\* true exactly when the object's capture list or its non-capture list of
\* the type holds an entry, and false otherwise.
C8_HasIffSomeBucketNonEmpty ==
    \A this \in RegObjects, t \in RegTypes :
        LET r == has_event_listener(slot_dispatch_list, this, <<t>>)
            lists == ListsOf(slot_dispatch_list, this)
        IN  /\ r.res \in {ValTrue, ValFalse}
            /\ r.res = ValTrue <=> (lists[<<t, TRUE>>] # <<>> \/ lists[<<t, FALSE>>] # <<>>)

\* A's only registration for "x" is a capture one and it reports true; B
\* registered "x" once, holds nothing for it any more, and reports false
C8_Witness ==
    /\ ListsOf(slot_dispatch_list, "A")[<<"x", TRUE>>] # <<>>
    /\ ListsOf(slot_dispatch_list, "A")[<<"x", FALSE>>] = <<>>
    /\ has_event_listener(slot_dispatch_list, "A", <<"x">>).res = ValTrue
    /\ <<"B", "x">> \in broadcast
    /\ EntriesFor(slot_dispatch_list, "B", "x") = 0
    /\ has_event_listener(slot_dispatch_list, "B", <<"x">>).res = ValFalse

\* list with its i-th entry taken out
WithoutIndex(list, i) == SubSeq(list, 1, i - 1) \o SubSeq(list, i + 1, Len(list))

\* C9: removeEventListener with a callable listener returns without error;
\* it changes no list but the one of its (type, useCapture); from that list
\* it takes out the entry of the listener and nothing else, and when the
\* listener is not in that list (also when it is in the list of the opposite
\* useCapture) the list stays as it was.
C9_RemoveOnlyTheMatchingEntry ==
    \A this \in RegObjects, args \in ValidRemoveArgs :
        LET b == <<args[1], Arg(args, 3, FALSE)>>
            r == remove_event_listener(slot_dispatch_list, broadcast, this, args)
            old == AllLists(slot_dispatch_list)
            new == AllLists(r.dls)
        IN  /\ r.res = Undefined
            /\ \A o \in Objects, c \in Buckets :
                   (o # this \/ c # b) => new[o][c] = old[o][c]
            /\ IF ListHas(old[this][b], args[2])
               THEN \E i \in 1..Len(old[this][b]) :
                        /\ old[this][b][i].handler = args[2]
                        /\ new[this][b] = WithoutIndex(old[this][b], i)
               ELSE new[this][b] = old[this][b]

\* A holds f in the capture list of "x" and g, not f, in the non-capture
\* list: removeEventListener("x", f) changes nothing
C9_Witness ==
    /\ ListHas(ListsOf(slot_dispatch_list, "A")[<<"x", TRUE>>], "f")
    /\ ListHas(ListsOf(slot_dispatch_list, "A")[<<"x", FALSE>>], "g")
    /\ ~ListHas(ListsOf(slot_dispatch_list, "A")[<<"x", FALSE>>], "f")
    /\ LET r == remove_event_listener(slot_dispatch_list, broadcast, "A", <<"x", "f">>)
       IN  r.res = Undefined /\ AllLists(r.dls) = AllLists(slot_dispatch_list)

\* C10: addEventListener and removeEventListener called on an object with a
\* listener that is not callable (a primitive, or undefined for a missing
\* argument) return the InvalidListener error, leave every list as it was
\* and add nothing to the broadcast registry.
C10_NonCallableListenerRejected ==
    \A this \in RegObjects :
        /\ \A args \in RegAddArgs \ ValidAddArgs :
               LET r == add_event_listener(slot_dispatch_list, broadcast, this, args)
               IN  /\ r.res = ErrInvalidListener
                   /\ AllLists(r.dls) = AllLists(slot_dispatch_list)
                   /\ r.bc = broadcast
        /\ \A args \in RegRemoveArgs \ ValidRemoveArgs :
               LET r == remove_event_listener(slot_dispatch_list, broadcast, this, args)
               IN  /\ r.res = ErrInvalidListener
                   /\ AllLists(r.dls) = AllLists(slot_dispatch_list)
                   /\ r.bc = broadcast

\* A holds the entries; B has never been used: addEventListener("y", prim)
\* with a primitive for listener fails on B, and B holds no entry and is not
\* in the registry
C10_Witness ==
    /\ TotalEntries(slot_dispatch_list) = MaxEntries
    /\ slot_dispatch_list["B"] = UndefinedSlot
    /\ LET r == add_event_listener(slot_dispatch_list, broadcast, "B", <<"y", "prim">>)
       IN  /\ r.res = ErrInvalidListener
           /\ TotalEntries(r.dls) = MaxEntries
           /\ r.bc = broadcast
    /\ \A t \in TypeNames : <<"B", t>> \notin broadcast

\* the nodes of n's parent chain, n included: n, its parent, ..., the root
ParentChain(n) ==
    CASE n = "A" -> {"A"}
      [] n = "B" -> {"B", "A"}
      [] n = "C" -> {"C", "B", "A"}
      [] OTHER -> {n}

\* C7: for every node N of the display tree and every type t, willTrigger(t)
\* on N returns true if some node of N's parent chain, N included, reports
\* hasEventListener(t) true, and false if none does.
C7_WillTriggerIffChainHasListener ==
    \A n \in DisplayNodes, t \in RegTypes :
        LET r == will_trigger(slot_dispatch_list, slot_target, n, <<t>>)
            chain_has == \E m \in ParentChain(n) :
                             has_event_listener(slot_dispatch_list, m, <<t>>).res = ValTrue
        IN  r.res = IF chain_has THEN ValTrue ELSE ValFalse

\* only the root A holds a listener for "x", a capture one, and only B holds
\* one for "y": willTrigger("x") is true on the leaf C and on B,
\* willTrigger("y") is true on C and false on A
C7_Witness ==
    /\ Snapshot(slot_dispatch_list, "A", "x", TRUE) # <<>>
    /\ EntriesFor(slot_dispatch_list, "B", "x") = 0
    /\ EntriesFor(slot_dispatch_list, "C", "x") = 0
    /\ EntriesFor(slot_dispatch_list, "B", "y") = 1
    /\ EntriesFor(slot_dispatch_list, "A", "y") = 0
    /\ EntriesFor(slot_dispatch_list, "C", "y") = 0
    /\ will_trigger(slot_dispatch_list, slot_target, "C", <<"y">>).res = ValTrue
    /\ will_trigger(slot_dispatch_list, slot_target, "A", <<"y">>).res = ValFalse
    /\ will_trigger(slot_dispatch_list, slot_target, "C", <<"x">>).res = ValTrue
    /\ will_trigger(slot_dispatch_list, slot_target, "B", <<"x">>).res = ValTrue

SortedDescending(list) ==
    \A i, j \in 1..Len(list) : i < j => list[i].priority >= list[j].priority

\* the handlers of a sequence of invocations
Handlers(invocations) == [i \in 1..Len(invocations) |-> invocations[i].handler]

\* the invocations made so far at the node visit in progress
FiredInPass ==
    LET ev == events[disp.event]
    IN  SelectSeq(fired, LAMBDA x : x.node = ev.currentTarget /\ x.phase = ev.phase)

\* the handlers of the lists a walk over path visits from visit k on, in the
\* order of the visits and, within a visit, of the list
RECURSIVE ListsAlongWalk(_, _, _, _)
ListsAlongWalk(dls, path, type, k) ==
    IF k > 2 * Len(path) - 1 THEN <<>>
    ELSE Snapshot(dls, StageNode(path, k), type, StagePhase(path, k) = "capturing")
             \o ListsAlongWalk(dls, path, type, k + 1)

\* C4: every list is sorted by descending priority; addEventListener with a
\* listener that is not yet in the list puts the new entry, with the priority
\* given, after every entry of the same or a higher priority and before every
\* entry of a lower one, and leaves the other entries in their order;
\* removeEventListener takes one entry out and leaves the others in their
\* order; and a node's firing pass invokes the listeners in the order of the
\* list: what it has invoked is the list's first entries, it ends with the
\* whole list invoked, and a finished dispatch has invoked, visit by visit,
\* the lists as they stand.
C4_SortedByPriorityStableAndFiredInOrder ==
    /\ \A o \in Objects, b \in Buckets : SortedDescending(ListsOf(slot_dispatch_list, o)[b])
    /\ \A args \in PriorityAddArgs :
           LET old == ListsOf(slot_dispatch_list, "A")[<<args[1], args[3]>>]
               r == add_event_listener(slot_dispatch_list, broadcast, "A", args)
               new == ListsOf(r.dls, "A")[<<args[1], args[3]>>]
           IN  ~ListHas(old, args[2])
               => \E i \in 1..Len(new) :
                      /\ new[i] = [handler |-> args[2], priority |-> args[4]]
                      /\ WithoutIndex(new, i) = old
                      /\ \A j \in 1..Len(new) :
                             /\ j < i => new[j].priority >= args[4]
                             /\ j > i => new[j].priority < args[4]
    /\ \A args \in PriorityRemoveArgs :
           LET old == ListsOf(slot_dispatch_list, "A")[<<args[1], args[3]>>]
               r == remove_event_listener(slot_dispatch_list, broadcast, "A", args)
               new == ListsOf(r.dls, "A")[<<args[1], args[3]>>]
           IN  ListHas(old, args[2]) => \E i \in 1..Len(old) : new = WithoutIndex(old, i)
    /\ (disp.pc = "walk" /\ disp.stage # 0)
           => LET ev == events[disp.event]
                  list == Snapshot(slot_dispatch_list, ev.currentTarget,
                                   EventType(disp.event), ev.phase = "capturing")
              IN  /\ Handlers(FiredInPass) = SubSeq(list, 1, disp.index)
                  /\ PassOver => Handlers(FiredInPass) = list
    /\ (disp.pc = "done" /\ disp.res = ValTrue)
           => Handlers(fired) = ListsAlongWalk(slot_dispatch_list, propagation_path(disp.this),
                                               EventType(disp.event), 1)

\* priorities 5, 1, 5, 0 given to f, g, h, k: the list is f, h, g, k and a
\* dispatch on the node has invoked f, h, g, k in that order
C4_Witness ==
    /\ disp.pc = "done"
    /\ disp.this = "A"
    /\ ListsOf(slot_dispatch_list, "A")[<<"x", FALSE>>]
           = <<[handler |-> "f", priority |-> 5], [handler |-> "h", priority |-> 5],
               [handler |-> "g", priority |-> 1], [handler |-> "k", priority |-> 0]>>
    /\ fired = <<[node |-> "A", handler |-> "f", phase |-> "at_target"],
                 [node |-> "A", handler |-> "h", phase |-> "at_target"],
                 [node |-> "A", handler |-> "g", phase |-> "at_target"],
                 [node |-> "A", handler |-> "k", phase |-> "at_target"]>>

\* depth of a node in the tree A -> B -> C
Depth(o) == CASE o = "A" -> 1 [] o = "B" -> 2 [] o = "C" -> 3 [] OTHER -> 1

ProperAncestors(o) == ParentChain(o) \ {o}

\* rank of a node visit in one dispatch: capturing visits from the root down,
\* then the target, then bubbling visits from the target's parent up
VisitRank(node, phase) ==
    CASE phase = "capturing" -> Depth(node)
      [] phase = "at_target" -> 10
      [] OTHER -> 20 - Depth(node)

\* the invocations a dispatch of event e on d owes: capture listeners of d's
\* ancestors, non-capture listeners of d, and for a bubbling event the
\* non-capture listeners of d's ancestors
DueInvocations(dls, d, e) ==
    {[node |-> a, handler |-> h, phase |-> "capturing"] :
         <<a, h>> \in {q \in ProperAncestors(d) \X Callables :
                          ListHas(ListsOf(dls, q[1])[<<EventType(e), TRUE>>], q[2])}}
    \cup {[node |-> d, handler |-> h, phase |-> "at_target"] :
              h \in {q \in Callables : ListHas(ListsOf(dls, d)[<<EventType(e), FALSE>>], q)}}
    \cup {[node |-> a, handler |-> h, phase |-> "bubbling"] :
              <<a, h>> \in {q \in ProperAncestors(d) \X Callables :
                               /\ EventBubbles(e)
                               /\ ListHas(ListsOf(dls, q[1])[<<EventType(e), FALSE>>], q[2])}}

\* C5: in one dispatch on D every invocation is one the dispatch owes (a
\* capture listener of an ancestor in phase Capturing, a non-capture listener
\* of D in phase AtTarget, a non-capture listener of an ancestor in phase
\* Bubbling) and is made once; the invocations come in the order capturing
\* from the root down, then the target, then bubbling from D's parent up;
\* once a listener has called stopPropagation at the target or while
\* bubbling, no other node fires; and a finished dispatch has made every
\* invocation it owes whose node visit comes before or is the visit of the
\* first stopPropagation.
C5_CaptureTargetBubbleOrder ==
    (disp.pc = "walk" \/ (disp.pc = "done" /\ IsEvent(disp.event) /\ disp.this # NoObject))
    => LET d == disp.this
           due == DueInvocations(slot_dispatch_list, d, disp.event)
           rank(x) == VisitRank(x.node, x.phase)
           stops == {i \in 1..Len(fired) : fired[i].handler = "stop"}
       IN  /\ \A i \in 1..Len(fired) : fired[i] \in due
           /\ \A i, j \in 1..Len(fired) :
                  i < j => /\ fired[i] # fired[j]
                           /\ rank(fired[i]) <= rank(fired[j])
           /\ \A i \in stops, j \in 1..Len(fired) :
                  (i < j /\ fired[i].phase # "capturing")
                  => (fired[j].node = fired[i].node /\ fired[j].phase = fired[i].phase)
           /\ (disp.pc = "done" /\ disp.res = ValTrue)
                  => \A x \in due :
                         (\A i \in stops : rank(fired[i]) >= rank(x))
                         => \E j \in 1..Len(fired) : fired[j] = x

\* the tree A -> B -> C with a capture listener and a non-capture listener on
\* A, a non-capture listener on B that calls stopPropagation and one on C: the
\* bubbling event dispatched on C has fired A-capture, C-target, B-bubble, and
\* not A's non-capture listener
C5_Witness ==
    /\ disp.pc = "done"
    /\ disp.this = "C"
    /\ disp.event = "E1"
    /\ disp.res = ValTrue
    /\ Snapshot(slot_dispatch_list, "A", "x", FALSE) = <<"f">>
    /\ fired = <<[node |-> "A", handler |-> "f", phase |-> "capturing"],
                 [node |-> "C", handler |-> "f", phase |-> "at_target"],
                 [node |-> "B", handler |-> "stop", phase |-> "bubbling"]>>

\* C6: a node's firing pass works on the copy of the list taken when the
\* pass begins: the copy is the list as it stands at that moment (so with
\* every earlier registration and removal in it); each invocation is the
\* next listener of the copy and leaves the copy as it was, whatever the
\* listener registered or removed on the node; the pass ends with exactly
\* the copy invoked, in its order; and what a listener registers or removes
\* is in the node's list as soon as the listener returns (a listener that
\* removed itself is no longer listed, a removed later listener neither, an
\* added one is), hence in the copy of every later pass.
C6_SnapshotRule ==
    [][LET e == disp'.event
           n == Len(fired')
           x == fired'[n]
           list_after == ListsOf(slot_dispatch_list', x.node)[<<EventType(e),
                                                                x.phase = "capturing">>]
       IN  /\ (disp'.pc = "walk" /\ disp'.stage # disp.stage)
                => /\ disp'.index = 0
                   /\ disp'.snapshot = Snapshot(slot_dispatch_list', events'[e].currentTarget,
                                                EventType(e),
                                                events'[e].phase = "capturing")
           /\ (disp.pc = "walk" /\ n = Len(fired) + 1)
                => /\ x.handler = disp.snapshot[disp.index + 1]
                   /\ x.node = events[e].currentTarget
                   /\ x.phase = events[e].phase
                   /\ disp'.pc = "walk"
                   /\ disp'.stage = disp.stage
                   /\ disp'.snapshot = disp.snapshot
                   /\ disp'.index = disp.index + 1
                   /\ x.handler = "rmself" => ~ListHas(list_after, "rmself")
                   /\ x.handler = "rmg" => ~ListHas(list_after, "g")
                   /\ x.handler = "addg" => ListHas(list_after, "g")
           /\ (disp.pc = "walk" /\ disp.stage # 0
                   /\ (disp'.pc # "walk" \/ disp'.stage # disp.stage))
                => Handlers(FiredInPass) = disp.snapshot]_vars

\* A's non-capture list was rmself, rmg, g: the dispatch on A has invoked all
\* three, g after rmg had removed it, and the list now holds rmg alone
C6_Witness ==
    /\ disp.pc = "done"
    /\ disp.this = "A"
    /\ Handlers(fired) = <<"rmself", "rmg", "g">>
    /\ Snapshot(slot_dispatch_list, "A", "x", FALSE) = <<"rmg">>

\* C11: the broadcast registry records (object, type) only for registrations
\* with useCapture = false: a pair enters the registry only in a step that is
\* an addEventListener of that object for that type with useCapture false;
\* an addEventListener with useCapture = true adds nothing to the registry.
C11_RegistryOnlyForNonCapture ==
    [][\A o \in RegObjects, t \in TypeNames :
           (<<o, t>> \in broadcast' /\ <<o, t>> \notin broadcast)
               => \E args \in ValidAddArgs :
                      /\ coerce_to_string(Arg(args, 1, Undefined)) = t
                      /\ Arg(args, 3, FALSE) = FALSE
                      /\ slot_dispatch_list'
                             = add_event_listener(slot_dispatch_list, broadcast, o, args).dls]_vars

\* the object has no dispatch list before the step and has one after it
Attached(o) ==
    slot_dispatch_list[o].kind # "dispatch" /\ slot_dispatch_list'[o].kind = "dispatch"

FiredInPhase(phase) == SelectSeq(fired, LAMBDA x : x.phase = phase)

\* the positions of the log where a capture listener stopped the propagation
CaptureStops == {i \in 1..Len(fired) : fired[i].phase = "capturing" /\ fired[i].handler = "stop"}

\* C13: when a capture listener of an ancestor has set propagationStopped in
\* the capturing phase, no ancestor after that one fires in the capturing
\* phase and nothing fires in the bubbling phase, and the dispatch, once it
\* has returned, has fired exactly the non-capture listeners of the dispatch
\* target in the AtTarget phase.
C13_CaptureStopStillFiresAtTarget ==
    (disp.pc \in {"walk", "done"} /\ CaptureStops # {})
        => LET first == CHOOSE i \in CaptureStops : \A j \in CaptureStops : i <= j
           IN  /\ \A j \in first..Len(fired) :
                      fired[j].phase = "capturing" => fired[j].node = fired[first].node
               /\ FiredInPhase("bubbling") = <<>>
               /\ disp.pc = "done"
                      => /\ disp.res = ValTrue
                         /\ Handlers(FiredInPhase("at_target"))
                                = Snapshot(slot_dispatch_list, disp.this, "x", FALSE)
                         /\ \A j \in 1..Len(fired) :
                                fired[j].phase = "at_target" => fired[j].node = disp.this

\* the bubbling event was dispatched on C; A's capture listener stopped the
\* propagation: B's capture listener and B's non-capture listener were passed
\* over and C's own listener was fired
C13_Witness ==
    /\ disp.pc = "done"
    /\ disp.this = "C"
    /\ EventBubbles(disp.event)
    /\ fired = <<[node |-> "A", handler |-> "stop", phase |-> "capturing"],
                 [node |-> "C", handler |-> "f", phase |-> "at_target"]>>
    /\ Snapshot(slot_dispatch_list, "B", "x", TRUE) # <<>>
    /\ Snapshot(slot_dispatch_list, "B", "x", FALSE) # <<>>

\* the node visit that follows visit k of a walk whose current visit was cut
\* short by stopImmediatePropagation, as C14 has it: the next node of the path
\* when propagationStopped is not set (the ancestors bubbling only for an
\* event that bubbles); with propagationStopped set no ancestor any more, only
\* the dispatch target when the stop came in the capturing phase; 0: none
VisitAfterHalt(path, k, propagationStopped, bubbles) ==
    LET n == Len(path)
    IN  IF propagationStopped THEN (IF k < n THEN n ELSE 0)
        ELSE IF k < n \/ (bubbles /\ k < 2 * n - 1) THEN k + 1
        ELSE 0

\* C14: once a listener has set immediatePropagationStopped, no later
\* listener of the same node is invoked in that firing pass; and the walk goes
\* on to the remaining nodes of the path exactly when propagationStopped is
\* not set as well, the two flags being independent: stopImmediatePropagation
\* alone sets no propagationStopped and skips no other node.
C14_ImmediateStopEndsThePassOnly ==
    [][LET e == disp.event
           n == Len(fired')
           next == VisitAfterHalt(disp.path, disp.stage, events[e].propagationStopped,
                                  EventBubbles(e))
       IN  /\ \A i, j \in 1..n :
                  (i < j /\ fired'[i].handler = "stopnow")
                      => ~(fired'[j].node = fired'[i].node /\ fired'[j].phase = fired'[i].phase)
           /\ (disp.pc = "walk" /\ n = Len(fired) + 1 /\ fired'[n].handler = "stopnow")
                  => /\ disp'.pc = "walk"
                     /\ disp'.halted
                     /\ events'[e].immediatePropagationStopped
                     /\ events'[e].propagationStopped = events[e].propagationStopped
           /\ (disp.pc = "walk" /\ disp.halted)
                  => /\ fired' = fired
                     /\ IF next = 0
                        THEN disp'.pc = "done" /\ disp'.res = ValTrue
                        ELSE /\ disp'.pc = "walk"
                             /\ disp'.stage = next
                             /\ ~disp'.halted
                             /\ events'[e].currentTarget = StageNode(disp.path, next)
                             /\ disp'.snapshot
                                    = Snapshot(slot_dispatch_list, StageNode(disp.path, next),
                                               EventType(e), next < Len(disp.path))]_vars

\* the bubbling event was dispatched on B; A's capture list is stopnow, f: f
\* was passed over in the capturing phase, and B and then A (bubbling) fired
C14_Witness ==
    /\ disp.pc = "done"
    /\ disp.this = "B"
    /\ Snapshot(slot_dispatch_list, "A", "x", TRUE) = <<"stopnow", "f">>
    /\ fired = <<[node |-> "A", handler |-> "stopnow", phase |-> "capturing"],
                 [node |-> "B", handler |-> "f", phase |-> "at_target"],
                 [node |-> "A", handler |-> "f", phase |-> "bubbling"]>>

\* the invocations of one list, as the log records them
Invocations(dls, node, type, phase) ==
    LET list == Snapshot(dls, node, type, phase = "capturing")
    IN  [i \in 1..Len(list) |-> [node |-> node, handler |-> list[i], phase |-> phase]]

\* what the capturing phase owes from visit k on, whatever the event's
\* bubbles flag: the capture lists of the ancestors from the root down, up to
\* and with the first list that holds a listener calling stopPropagation
RECURSIVE CaptureDue(_, _, _, _)
CaptureDue(dls, path, type, k) ==
    IF k >= Len(path) THEN <<>>
    ELSE LET here == Invocations(dls, StageNode(path, k), type, "capturing")
         IN  IF \E i \in 1..Len(here) : here[i].handler = "stop" THEN here
             ELSE here \o CaptureDue(dls, path, type, k + 1)

\* C15: a dispatch of an event whose bubbles flag is false invokes no
\* non-capture listener of an ancestor of D (nothing fires in the bubbling
\* phase, and every invocation on an ancestor is a capturing one); its
\* capturing and AtTarget invocations are those of any dispatch, bubbling or
\* not: the ancestors' capture lists from the root down, then D's
\* non-capture list, and nothing else; and a dispatch on a node without parent
\* fires nothing in the capturing phase.
C15_NonBubblingEventSkipsBubblingOnly ==
    LET d == disp.this
        e == disp.event
        path == propagation_path(d)
        at_or_before_target == SelectSeq(fired, LAMBDA x : x.phase # "bubbling")
    IN  /\ (disp.pc \in {"walk", "done"} /\ IsEvent(e) /\ d # NoObject /\ ~EventBubbles(e))
               => /\ FiredInPhase("bubbling") = <<>>
                  /\ \A i \in 1..Len(fired) :
                         /\ fired[i].node \in ProperAncestors(d) => fired[i].phase = "capturing"
                         /\ fired[i].node = d => fired[i].phase = "at_target"
        /\ (disp.pc = "done" /\ disp.res = ValTrue)
               => /\ at_or_before_target
                         = CaptureDue(slot_dispatch_list, path, EventType(e), 1)
                              \o Invocations(slot_dispatch_list, d, EventType(e), "at_target")
                  /\ ~EventBubbles(e) => fired = at_or_before_target
                  /\ parent_of(d) = NoObject => FiredInPhase("capturing") = <<>>

\* the event that does not bubble was dispatched on C: A's capture listener
\* and C's listener were fired, the non-capture listeners of A and B were not
C15_Witness ==
    /\ disp.pc = "done"
    /\ disp.this = "C"
    /\ ~EventBubbles(disp.event)
    /\ fired = <<[node |-> "A", handler |-> "f", phase |-> "capturing"],
                 [node |-> "C", handler |-> "f", phase |-> "at_target"]>>
    /\ Snapshot(slot_dispatch_list, "A", "x", FALSE) # <<>>
    /\ Snapshot(slot_dispatch_list, "B", "x", FALSE) # <<>>

\* the listeners whose invocation fails, and the failure of each
Throwers == {"throw", "throw2"}
FailureOf(handler) ==
    IF handler = "throw" THEN ErrListenerFailure ELSE ErrOtherListenerFailure

\* C16: a listener whose invocation fails is the last listener its dispatch
\* invokes: the step that invokes it ends the walk with dispatchEvent
\* returning that listener's failure, which is no boolean; no listener of the
\* failing node, of a later node or of a later phase is invoked afterwards,
\* the only step left to the dispatch being its return.
C16_ListenerFailureAbortsDispatch ==
    [][LET n == Len(fired')
       IN  /\ \A i \in 1..(n - 1) : fired'[i].handler \notin Throwers
           /\ (disp.pc = "walk" /\ n = Len(fired) + 1 /\ fired'[n].handler \in Throwers)
                  => /\ disp'.pc = "done"
                     /\ disp'.res = FailureOf(fired'[n].handler)
                     /\ disp'.res \notin {ValTrue, ValFalse}
           /\ (disp.pc = "done" /\ disp.res \in {ErrListenerFailure, ErrOtherListenerFailure})
                  => disp'.pc = "idle" /\ fired' = <<>>]_vars

\* the bubbling event was dispatched on B, whose list is throw2, f: after A's
\* capture listener, throw2 failed; B's f and A's non-capture listener were
\* not invoked and dispatchEvent returns throw2's failure
C16_Witness ==
    /\ disp.pc = "done"
    /\ disp.this = "B"
    /\ EventBubbles(disp.event)
    /\ disp.res = ErrOtherListenerFailure
    /\ Snapshot(slot_dispatch_list, "B", "x", FALSE) = <<"throw2", "f">>
    /\ Snapshot(slot_dispatch_list, "A", "x", FALSE) # <<>>
    /\ fired = <<[node |-> "A", handler |-> "f", phase |-> "capturing"],
                 [node |-> "B", handler |-> "throw2", phase |-> "at_target"]>>

\* C17: the broadcast registry only grows: no step (a call of
\* removeEventListener, hasEventListener, willTrigger or dispatchEvent, or a
\* step of a dispatch) takes an (object, type) pair out of it, and a
\* removeEventListener that takes away an object's last listener for a type
\* leaves the object recorded for that type.
C17_BroadcastRegistryMonotone ==
    [][/\ broadcast \subseteq broadcast'
       /\ \A o \in DisplayNodes, args \in TreeAddArgs :
              LET r == remove_event_listener(slot_dispatch_list, broadcast, o, args)
              IN  /\ broadcast \subseteq r.bc
                  /\ (/\ Arg(args, 3, FALSE) = FALSE
                      /\ IsOnlyRegistration(slot_dispatch_list, o, args[1], args[2], FALSE))
                         => /\ EntriesFor(r.dls, o, args[1]) = 0
                            /\ <<o, args[1]>> \in r.bc]_vars

\* A's listeners for "x" have all been removed and A is still recorded for
\* "x"; other nodes hold listeners
C17_Witness ==
    /\ <<"A", "x">> \in broadcast
    /\ slot_dispatch_list["A"].kind = "dispatch"
    /\ EntriesFor(slot_dispatch_list, "A", "x") = 0
    /\ TotalEntries(slot_dispatch_list) > 0
    /\ disp.pc = "done"

\* every entry of old is in new, with its priority, and in the same order
KeepsEntries(old, new) ==
    SelectSeq(new, LAMBDA x : \E i \in 1..Len(old) : old[i] = x) = old

\* the lists of o in dls hold every entry of o's lists in the current state,
\* in order, but for the entry of the triple (type, listener, useCapture)
KeepsEntriesOf(o, dls, type, listener, use_capture) ==
    /\ dls[o].kind = "dispatch"
    /\ \A b \in Buckets :
           KeepsEntries(SelectSeq(ListsOf(slot_dispatch_list, o)[b],
                                  LAMBDA x : ~(b = <<type, use_capture>> /\ x.handler = listener)),
                        ListsOf(dls, o)[b])

\* C18: an object's dispatch list, once attached, stays attached and is never
\* exchanged for an empty one: addEventListener, hasEventListener and
\* willTrigger on the object (and willTrigger on its child) leave every
\* entry of its lists in place, removeEventListener leaves every entry but
\* the one of its triple, and in every step an entry that goes from a list
\* goes by a removeEventListener on that object with the entry's own type,
\* listener and useCapture.
C18_DispatchListNeverReplaced ==
    /\ [](\A o \in RegObjects :
             slot_dispatch_list[o].kind = "dispatch"
                 => /\ dispatch_list(slot_dispatch_list, o) = slot_dispatch_list
                    /\ \A args \in RegAddArgs :
                           KeepsEntriesOf(o, add_event_listener(slot_dispatch_list, broadcast,
                                                                o, args).dls,
                                          Undefined, Undefined, FALSE)
                    /\ \A args \in RegRemoveArgs :
                           KeepsEntriesOf(o, remove_event_listener(slot_dispatch_list, broadcast,
                                                                   o, args).dls,
                                          coerce_to_string(Arg(args, 1, Undefined)),
                                          Arg(args, 2, Undefined), Arg(args, 3, FALSE))
                    /\ \A args \in RegQueryArgs, this \in RegObjects :
                           /\ has_event_listener(slot_dispatch_list, this, args).dls[o]
                                  = slot_dispatch_list[o]
                           /\ will_trigger(slot_dispatch_list, slot_target, this, args).dls[o]
                                  = slot_dispatch_list[o])
    /\ [][\A o \in RegObjects :
              /\ slot_dispatch_list[o].kind = "dispatch"
                     => slot_dispatch_list'[o].kind = "dispatch"
              /\ \A b \in Buckets :
                     LET old == ListsOf(slot_dispatch_list, o)[b]
                     IN  \A i \in 1..Len(old) :
                             ~ListHas(ListsOf(slot_dispatch_list', o)[b], old[i].handler)
                                 => slot_dispatch_list'
                                        = remove_event_listener(slot_dispatch_list, broadcast, o,
                                                                <<b[1], old[i].handler,
                                                                  b[2]>>).dls]_vars

\* A's list for "x" holds f and g: the list f was put in is the list g was
\* added to, and B's list was attached by a call that registered nothing
C18_Witness ==
    /\ Snapshot(slot_dispatch_list, "A", "x", FALSE) = <<"f", "g">>
    /\ slot_dispatch_list["B"] = empty_list

\* C19: hasEventListener and willTrigger change no registration: after
\* either call every list of every object (the receiver's and those of the
\* ancestors willTrigger visits) holds the entries it held, with their
\* priorities and order; the same query made again returns the same answer and
\* changes nothing at all; and a step that is such a query leaves the
\* broadcast registry as it was.
C19_QueriesChangeNoRegistration ==
    /\ [](\A this \in DisplayNodes, args \in RegQueryArgs :
             LET h == has_event_listener(slot_dispatch_list, this, args)
                 w == will_trigger(slot_dispatch_list, slot_target, this, args)
             IN  /\ AllLists(h.dls) = AllLists(slot_dispatch_list)
                 /\ AllLists(w.dls) = AllLists(slot_dispatch_list)
                 /\ has_event_listener(h.dls, this, args) = h
                 /\ will_trigger(w.dls, slot_target, this, args) = w
                 /\ has_event_listener(w.dls, this, args).res = h.res
                 /\ will_trigger(h.dls, slot_target, this, args).res = w.res)
    /\ [][\A this \in DisplayNodes, args \in RegQueryArgs :
              (\/ slot_dispatch_list' = has_event_listener(slot_dispatch_list, this, args).dls
               \/ slot_dispatch_list'
                      = will_trigger(slot_dispatch_list, slot_target, this, args).dls)
                  => /\ broadcast' = broadcast
                     /\ AllLists(slot_dispatch_list') = AllLists(slot_dispatch_list)]_vars

\* A holds a listener for "x"; the lists of B and C were attached by queries
\* and are empty: willTrigger("x") on C is true, hasEventListener("x") false
C19_Witness ==
    /\ EntriesFor(slot_dispatch_list, "A", "x") > 0
    /\ slot_dispatch_list["B"] = empty_list
    /\ slot_dispatch_list["C"] = empty_list
    /\ will_trigger(slot_dispatch_list, slot_target, "C", <<"x">>).res = ValTrue
    /\ has_event_listener(slot_dispatch_list, "C", <<"x">>).res = ValFalse

\* where willTrigger on o goes on after o itself, as C20 has it: at the
\* parent of the object in o's target slot, or at o's own parent when the
\* slot holds no object; and the nodes from there up to the root
WalkStart(o) ==
    IF slot_target[o].kind = "object" THEN parent_of(slot_target[o].obj) ELSE parent_of(o)
WalkNodes(o) == IF WalkStart(o) = NoObject THEN {} ELSE ParentChain(WalkStart(o))

\* C20: willTrigger(t) on a dispatcher is true when the dispatcher's own list
\* has a listener for t, or when a node from the parent of the object in its
\* target slot up to the root has one (from the dispatcher's own parent up
\* when the slot holds no object); it is false otherwise, the walk having
\* then gone over these nodes to the one without parent; no other object is
\* visited: not the target itself, nor the dispatcher's parent when a target
\* is set.
C20_WillTriggerWalksFromTargetsParent ==
    \A o \in Objects, t \in RegTypes :
        LET w == will_trigger(slot_dispatch_list, slot_target, o, <<t>>)
            has(n) == DispatchList_has_event_listener(
                          [kind |-> "dispatch", lists |-> ListsOf(slot_dispatch_list, n)], t)
            visited == {n \in Objects : w.dls[n] # slot_dispatch_list[n]}
            unattached(ns) == {n \in ns : slot_dispatch_list[n].kind # "dispatch"}
        IN  /\ w.res = IF has(o) \/ \E n \in WalkNodes(o) : has(n) THEN ValTrue ELSE ValFalse
            /\ has(o) => w.dls = slot_dispatch_list
            /\ visited \subseteq {o} \cup WalkNodes(o)
            /\ w.res = ValFalse => visited = unattached({o} \cup WalkNodes(o))

\* P was constructed with target C; B holds a listener for "x" and C one for
\* "y": willTrigger("x") on P is true and willTrigger("y") on P is false
C20_Witness ==
    /\ slot_target["P"] = ObjectSlot("C")
    /\ EntriesFor(slot_dispatch_list, "B", "x") = 1
    /\ EntriesFor(slot_dispatch_list, "C", "y") = 1
    /\ slot_dispatch_list["P"] = empty_list
    /\ will_trigger(slot_dispatch_list, slot_target, "P", <<"x">>).res = ValTrue
    /\ will_trigger(slot_dispatch_list, slot_target, "P", <<"y">>).res = ValFalse

====
